---- MODULE Spec2Model ----
(***************************************************************************)
(* Gap estimators (accrual/methods.py) and the monthly rollforward         *)
(* (transform/build_gold.py) of the EIA storage accrual engine.            *)
(*                                                                         *)
(* Floats are modelled as exact rationals <<n, d>> (d > 0, lowest terms),  *)
(* dates as <<year, month, day>> of the Gregorian calendar, a DataFrame as *)
(* the sequence of its rows.  A call either returns a value or raises.     *)
(***************************************************************************)
EXTENDS Integers, Sequences, FiniteSets, TLC

\* ------------------------------------------------------------------------
\* Bounds of the model
\* ------------------------------------------------------------------------
MaxObs == 3
MaxOps == 2
MaxRoll == 2
MaxCap == 2

\* ------------------------------------------------------------------------
\* Exact rational arithmetic (the model of Python float arithmetic)
\* ------------------------------------------------------------------------
Abs(x) == IF x < 0 THEN -x ELSE x

RECURSIVE GCD(_, _)
GCD(a, b) == IF b = 0 THEN a ELSE GCD(b, a % b)

R(n, d) ==
    LET s == IF d < 0 THEN -1 ELSE 1
        g == GCD(Abs(n), Abs(d))
    IN  IF n = 0 THEN <<0, 1>> ELSE <<(s * n) \div g, (s * d) \div g>>

RInt(n) == <<n, 1>>
RZero == <<0, 1>>
RAdd(a, b) == R(a[1] * b[2] + b[1] * a[2], a[2] * b[2])
RNeg(a) == <<-a[1], a[2]>>
RSub(a, b) == RAdd(a, RNeg(b))
RMul(a, b) == R(a[1] * b[1], a[2] * b[2])
RDiv(a, b) == R(a[1] * b[2], a[2] * b[1])

\* ------------------------------------------------------------------------
\* Calendar dates (datetime.date, pandas Timestamp/Period)
\* ------------------------------------------------------------------------
IsLeap(y) == (y % 4 = 0 /\ y % 100 # 0) \/ y % 400 = 0

DaysInMonth(y, m) ==
    IF m = 2 THEN (IF IsLeap(y) THEN 29 ELSE 28)
    ELSE IF m \in {4, 6, 9, 11} THEN 30 ELSE 31

RECURSIVE DaysBeforeMonth(_, _)
DaysBeforeMonth(y, m) ==
    IF m = 1 THEN 0 ELSE DaysBeforeMonth(y, m - 1) + DaysInMonth(y, m - 1)

DaysBeforeYear(y) ==
    (y - 1) * 365 + ((y - 1) \div 4) - ((y - 1) \div 100) + ((y - 1) \div 400)

\* date.toordinal()
Ordinal(d) == DaysBeforeYear(d[1]) + DaysBeforeMonth(d[1], d[2]) + d[3]

\* (a - b).days
DaysBetween(a, b) == Ordinal(a) - Ordinal(b)

DateLE(a, b) ==
    \/ a[1] < b[1]
    \/ a[1] = b[1] /\ a[2] < b[2]
    \/ a[1] = b[1] /\ a[2] = b[2] /\ a[3] <= b[3]

DateLT(a, b) == DateLE(a, b) /\ a # b

_month_end_asof(d) == d

\* pd.Timestamp(d).to_period("M").end_time.date()
_month_end(d) == <<d[1], d[2], DaysInMonth(d[1], d[2])>>

\* (pd.Timestamp(d) - pd.offsets.MonthBegin(1)).date(): the latest first-of-
\* month strictly before d
MonthBeginBack(d) ==
    IF d[3] > 1 THEN <<d[1], d[2], 1>>
    ELSE IF d[2] = 1 THEN <<d[1] - 1, 12, 1>>
    ELSE <<d[1], d[2] - 1, 1>>

\* pd.to_datetime(col).dt.to_period("M")
PeriodM(d) == <<d[1], d[2]>>

\* ------------------------------------------------------------------------
\* Values of the model
\* ------------------------------------------------------------------------
Null == "<NaN>"       \* a missing cell of a DataFrame column
None == "<None>"      \* Python None passed for stratum

Ok(v) == [kind |-> "ok", val |-> v, exc |-> "-"]
Raise(e) == [kind |-> "raise", val |-> RZero, exc |-> e]

\* x.fillna("none") on the stratum column
FillNone(s) == IF s = Null THEN "none" ELSE s

OrNone_asgiven(s) == s

\* (stratum or "none")
OrNone(s) == IF s \in {None, ""} THEN "none" ELSE s

\* ------------------------------------------------------------------------
\* DataFrame helpers
\* ------------------------------------------------------------------------
caller_keeps_alias(df, assigned) == assigned

\* w = df.copy() (or a filter, sort or merge, which return a new frame):
\* what is then assigned to w leaves the caller's df as it was
caller_keeps(df, assigned) == df

sort_values_unsorted(sr) == sr

\* df.sort_values("date_reported"): the rows reordered, dates ascending (rows
\* of equal date keep their order)
RECURSIVE sort_values(_)
sort_values(sr) ==
    IF sr = <<>> THEN <<>>
    ELSE LET i == CHOOSE k \in 1..Len(sr) :
                      /\ \A j \in 1..Len(sr) :
                            DateLE(sr[k].date_reported, sr[j].date_reported)
                      /\ \A j \in 1..(k - 1) :
                            sr[j].date_reported # sr[k].date_reported
         IN  <<sr[i]>> \o sort_values(SubSeq(sr, 1, i - 1)
                                       \o SubSeq(sr, i + 1, Len(sr)))

\* sr[sr["date_reported"] <= d]
UpTo(sr, d) == SelectSeq(sr, LAMBDA r : DateLE(r.date_reported, d))

tail_head(sr, n) ==
    IF n >= Len(sr) THEN sr ELSE SubSeq(sr, 1, n)

\* sr.tail(n), n >= 0
tail(sr, n) ==
    IF n >= Len(sr) THEN sr ELSE SubSeq(sr, Len(sr) - n + 1, Len(sr))

\* sr["delta_week_bcf"].sum()
RECURSIVE SumDelta(_)
SumDelta(sr) ==
    IF sr = <<>> THEN 0 ELSE Head(sr).delta_week_bcf + SumDelta(Tail(sr))

\* sr["daily_rate"].sum() with daily_rate = delta_week_bcf / 7.0
RECURSIVE SumDailyRate(_)
SumDailyRate(sr) ==
    IF sr = <<>> THEN RZero
    ELSE RAdd(RDiv(RInt(Head(sr).delta_week_bcf), RInt(7)),
              SumDailyRate(Tail(sr)))

DOk(d) == [kind |-> "ok", date |-> d, exc |-> "-"]
DRaise(e) == [kind |-> "raise", date |-> <<1, 1, 1>>, exc |-> e]

\* pd.to_datetime(sr["date_reported"].max()).date(): the maximum of an empty
\* column is NaN, to_datetime gives NaT, and NaT.date() raises ValueError
MaxDateReported(sr) ==
    IF sr = <<>> THEN DRaise("ValueError")
    ELSE LET i == CHOOSE k \in 1..Len(sr) :
                      \A j \in 1..Len(sr) :
                          DateLE(sr[j].date_reported, sr[k].date_reported)
         IN  DOk(sr[i].date_reported)

\* ------------------------------------------------------------------------
\* accrual/methods.py
\* ------------------------------------------------------------------------
SelectRows_regiononly(weekly, region, stratum) ==
    SelectSeq(weekly, LAMBDA w : w.region = region)

\* w[(w["region"] == region) & (w["stratum"].fillna("none") == (stratum or "none"))]
SelectRows(weekly, region, stratum) ==
    SelectSeq(weekly, LAMBDA w : w.region = region
                                 /\ FillNone(w.stratum) = OrNone(stratum))

_select_series(weekly, region, stratum) ==
    sort_values(SelectRows(weekly, region, stratum))

_gap_days_plusone(last_friday, month_end) ==
    IF DaysBetween(month_end, last_friday) + 1 > 0
    THEN DaysBetween(month_end, last_friday) + 1 ELSE 0

_gap_days(last_friday, month_end) ==
    IF DaysBetween(month_end, last_friday) > 0
    THEN DaysBetween(month_end, last_friday) ELSE 0

\* tail["delta_week_bcf"].sum() / (7 * len(tail))
avg_daily(tl) == RDiv(RInt(SumDelta(tl)), RInt(7 * Len(tl)))

DefaultLookback == 4

MethodA(lookback_weeks, weekly, asof, region, stratum) ==
    LET sr == UpTo(_select_series(weekly, region, stratum), asof)
    IN  IF sr = <<>> THEN Ok(RZero)
        ELSE LET last_friday == MaxDateReported(sr).date
                 month_end == _month_end(asof)
                 g == _gap_days(last_friday, month_end)
                 tl == tail(sr, lookback_weeks)
             IN  IF tl = <<>> THEN Ok(RZero)
                 ELSE Ok(RMul(avg_daily(tl), RInt(g)))

OfMonth_sameyear(sr, m) ==
    SelectSeq(sr, LAMBDA r : r.date_reported[2] = m
                             /\ r.date_reported[1] = sr[Len(sr)].date_reported[1])

\* sr[sr["month"] == m]: the rows of one group of groupby("month")
OfMonth(sr, m) == SelectSeq(sr, LAMBDA r : r.date_reported[2] = m)

\* sr.groupby("month")["daily_rate"].mean(): the months of the index and the
\* mean of each
MonthIndex(sr) == {sr[i].date_reported[2] : i \in 1..Len(sr)}
month_avg(sr, m) == RDiv(SumDailyRate(OfMonth(sr, m)), RInt(Len(OfMonth(sr, m))))

MethodB(weekly, asof, region, stratum) ==
    LET sr == UpTo(_select_series(weekly, region, stratum), asof)
    IN  IF sr = <<>> THEN Ok(RZero)
        ELSE LET last_friday == MaxDateReported(sr).date
                 month_end == _month_end(asof)
                 g == _gap_days(last_friday, month_end)
             IN  IF asof[2] \in MonthIndex(sr)
                 THEN Ok(RMul(month_avg(sr, asof[2]), RInt(g)))
                 ELSE Ok(RZero)

\* The file at ops_path: absent, or a CSV with the set of its rows
Missing == [exists |-> FALSE, rows |-> {}]
OpsFile(rows) == [exists |-> TRUE, rows |-> rows]

OpsWindow_inclusive(ops, last_friday, month_end) ==
    {o \in ops : DateLE(last_friday, o.date) /\ DateLE(o.date, month_end)}

\* ops[(date > last_friday) & (date <= month_end)]
OpsWindow(ops, last_friday, month_end) ==
    {o \in ops : DateLT(last_friday, o.date) /\ DateLE(o.date, month_end)}

\* ops[(region == region) & (stratum.fillna("none") == (stratum or "none"))]
OpsGroup(ops, region, stratum) ==
    {o \in ops : o.region = region /\ FillNone(o.stratum) = OrNone(stratum)}

RECURSIVE SumInj(_)
SumInj(S) ==
    IF S = {} THEN 0
    ELSE LET o == CHOOSE x \in S : TRUE IN o.inj_bcf + SumInj(S \ {o})

RECURSIVE SumWd(_)
SumWd(S) ==
    IF S = {} THEN 0
    ELSE LET o == CHOOSE x \in S : TRUE IN o.wd_bcf + SumWd(S \ {o})

MethodC(opsfile, weekly, asof, region, stratum) ==
    LET sr == _select_series(weekly, region, stratum)
    IN  IF sr = <<>> THEN Ok(RZero)
        ELSE LET lf == MaxDateReported(UpTo(sr, asof))
                 month_end == _month_end(asof)
             IN  IF lf.kind = "raise" THEN Raise(lf.exc)
                 ELSE IF DateLE(month_end, lf.date) THEN Ok(RZero)
                 ELSE IF ~opsfile.exists THEN Ok(RZero)
                 ELSE LET ops == OpsGroup(OpsWindow(opsfile.rows, lf.date, month_end),
                                          region, stratum)
                      IN  IF ops = {} THEN Ok(RZero)
                          ELSE Ok(RInt(SumInj(ops) - SumWd(ops)))

\* weights.get(k, default)
weights_get_capped(weights, k, default) ==
    IF k \in DOMAIN weights
    THEN (IF weights[k][1] > weights[k][2] THEN RInt(1) ELSE weights[k])
    ELSE default

\* self.weights.get(k, default)
weights_get(weights, k, default) ==
    IF k \in DOMAIN weights THEN weights[k] ELSE default

BlendedEstimator_wBc(weights, lookback_weeks, opsfile, weekly, asof, region, stratum) ==
    LET a == MethodA(lookback_weeks, weekly, asof, region, stratum)
        b == MethodB(weekly, asof, region, stratum)
        c == MethodC(opsfile, weekly, asof, region, stratum)
        wA == weights_get(weights, "A", R(3, 10))
        wB == weights_get(weights, "B", R(2, 10))
        wC == weights_get(weights, "C", R(5, 10))
    IN  IF a.kind = "raise" THEN a
        ELSE IF b.kind = "raise" THEN b
        ELSE IF c.kind = "raise" THEN c
        ELSE Ok(RAdd(RAdd(RMul(wA, a.val), RMul(wB, c.val)), RMul(wC, c.val)))

BlendedEstimator(weights, lookback_weeks, opsfile, weekly, asof, region, stratum) ==
    LET a == MethodA(lookback_weeks, weekly, asof, region, stratum)
        b == MethodB(weekly, asof, region, stratum)
        c == MethodC(opsfile, weekly, asof, region, stratum)
        wA == weights_get(weights, "A", R(3, 10))
        wB == weights_get(weights, "B", R(2, 10))
        wC == weights_get(weights, "C", R(5, 10))
    IN  IF a.kind = "raise" THEN a
        ELSE IF b.kind = "raise" THEN b
        ELSE IF c.kind = "raise" THEN c
        ELSE Ok(RAdd(RAdd(RMul(wA, a.val), RMul(wB, b.val)), RMul(wC, c.val)))


\* ------------------------------------------------------------------------
\* transform/build_gold.py
\* ------------------------------------------------------------------------
_last_reported_friday(sr, asof) == MaxDateReported(UpTo(sr, asof))

\* prev_me = _month_end((pd.Timestamp(me) - pd.offsets.MonthBegin(1)).date())
prev_month_end(me) == _month_end(MonthBeginBack(me))

\* float(sr[sr["date_reported"] <= prev_me]["working_gas_bcf"].tail(1).squeeze())
\* if not sr.empty else 0.0 ; squeeze() of an empty Series is the Series, and
\* float() of it raises TypeError
beg_working_gas(sr, prev_me) ==
    IF sr = <<>> THEN Ok(RZero)
    ELSE LET t == tail(UpTo(sr, prev_me), 1)
         IN  IF Len(t) = 1 THEN Ok(RInt(t[1].working_gas_bcf))
             ELSE Raise("TypeError")

in_month_rows_anyyear(sr, me) ==
    SelectSeq(sr, LAMBDA r : r.date_reported[2] = me[2])

\* sr[to_period("M") of date_reported == pd.Period(me, freq="M")]
in_month_rows(sr, me) ==
    SelectSeq(sr, LAMBDA r : PeriodM(r.date_reported) = PeriodM(me))

\* float(in_month[delta > 0]["delta_week_bcf"].sum())
est_injections(in_month) ==
    SumDelta(SelectSeq(in_month, LAMBDA r : r.delta_week_bcf > 0))

est_withdrawals_signed(in_month) ==
    SumDelta(SelectSeq(in_month, LAMBDA r : r.delta_week_bcf < 0))

\* float(-in_month[delta < 0]["delta_week_bcf"].sum())
est_withdrawals(in_month) ==
    -SumDelta(SelectSeq(in_month, LAMBDA r : r.delta_week_bcf < 0))

roll_weights_swapped(weights) ==
    [k \in {"A", "B", "C"} |->
        IF k = "A" THEN weights[1] ELSE IF k = "B" THEN weights[3] ELSE weights[2]]

\* weights={"A": weights[0], "B": weights[1], "C": weights[2]}
roll_weights(weights) ==
    [k \in {"A", "B", "C"} |->
        IF k = "A" THEN weights[1] ELSE IF k = "B" THEN weights[2] ELSE weights[3]]

roll_gap_days_plusone(me, last_fri) ==
    IF DaysBetween(me, last_fri) + 1 > 0 THEN DaysBetween(me, last_fri) + 1 ELSE 0

\* gap_days = max((me - last_fri).days, 0)
roll_gap_days(me, last_fri) ==
    IF DaysBetween(me, last_fri) > 0 THEN DaysBetween(me, last_fri) ELSE 0

end_est_signflip(beg, inj, wd, gap_delta) == RAdd(RAdd(RAdd(beg, inj), wd), gap_delta)

\* end_est = beg + inj - wd + gap_delta
end_est(beg, inj, wd, gap_delta) == RAdd(RSub(RAdd(beg, inj), wd), gap_delta)

NoRow == [month_end |-> <<1, 1, 1>>, region |-> "-", stratum |-> "-",
          beg_working_gas_bcf |-> RZero, est_injections_bcf |-> RZero,
          est_withdrawals_bcf |-> RZero, gap_delta_bcf |-> RZero,
          gap_days |-> 0, end_working_gas_bcf |-> RZero]

RowOk(r) == [kind |-> "ok", row |-> r, exc |-> "-"]
RowRaise(e) == [kind |-> "raise", row |-> NoRow, exc |-> e]

build_monthly_rollforward(opsfile, weekly_silver, asof, weights, region, stratum) ==
    LET sr == sort_values(SelectRows(weekly_silver, region, stratum))
        me == _month_end(asof)
        prev_me == prev_month_end(me)
        beg == beg_working_gas(sr, prev_me)
        in_month == in_month_rows(sr, me)
        inj == RInt(est_injections(in_month))
        wd == RInt(est_withdrawals(in_month))
        last_fri == _last_reported_friday(sr, asof)
        gap_days == roll_gap_days(me, last_fri.date)
        gap_delta == BlendedEstimator(roll_weights(weights), DefaultLookback,
                                      opsfile, weekly_silver, asof, region, stratum)
    IN  IF beg.kind = "raise" THEN RowRaise(beg.exc)
        ELSE IF last_fri.kind = "raise" THEN RowRaise(last_fri.exc)
        ELSE IF gap_delta.kind = "raise" THEN RowRaise(gap_delta.exc)
        ELSE RowOk([month_end |-> me,
                    region |-> region,
                    stratum |-> OrNone(stratum),
                    beg_working_gas_bcf |-> beg.val,
                    est_injections_bcf |-> inj,
                    est_withdrawals_bcf |-> wd,
                    gap_delta_bcf |-> gap_delta.val,
                    gap_days |-> gap_days,
                    end_working_gas_bcf |->
                        end_est(beg.val, inj, wd, gap_delta.val)])


\* ------------------------------------------------------------------------
\* Decimal numbers of the accrual calculator: <<n, d, e>> is n/d * 10^e with
\* d > 0 coprime to 10 and to n, and n not a multiple of 10 (zero is
\* <<0, 1, 0>>), so that monetary amounts of the size of
\* 3298 * 1,037,000 * 3.25 stay exact
\* ------------------------------------------------------------------------
RECURSIVE Pow10(_)
Pow10(k) == IF k = 0 THEN 1 ELSE 10 * Pow10(k - 1)

RECURSIVE StripN(_, _, _)
StripN(n, d, e) == IF n % 10 = 0 THEN StripN(n \div 10, d, e + 1) ELSE <<n, d, e>>

RECURSIVE StripD(_, _, _)
StripD(n, d, e) ==
    IF d % 2 = 0 THEN StripD(n * 5, d \div 2, e - 1)
    ELSE IF d % 5 = 0 THEN StripD(n * 2, d \div 5, e - 1)
    ELSE StripN(n, d, e)

DNorm(n, d, e) ==
    IF n = 0 THEN <<0, 1, 0>>
    ELSE LET s == IF d < 0 THEN -1 ELSE 1
             g == GCD(Abs(n), Abs(d))
             z == StripN((s * n) \div g, (s * d) \div g, e)
         IN  StripD(z[1], z[2], z[3])

DZero == <<0, 1, 0>>
DInt(n) == DNorm(n, 1, 0)
DFrac(n, d) == DNorm(n, d, 0)
FromR(r) == DNorm(r[1], r[2], 0)

DMul(a, b) ==
    LET g1 == GCD(Abs(a[1]), b[2])
        g2 == GCD(Abs(b[1]), a[2])
    IN  IF a[1] = 0 \/ b[1] = 0 THEN DZero
        ELSE DNorm((a[1] \div g1) * (b[1] \div g2),
                   (a[2] \div g2) * (b[2] \div g1), a[3] + b[3])

DAdd(a, b) ==
    IF a[1] = 0 THEN b
    ELSE IF b[1] = 0 THEN a
    ELSE LET e == IF a[3] < b[3] THEN a[3] ELSE b[3]
             na == a[1] * Pow10(a[3] - e)
             nb == b[1] * Pow10(b[3] - e)
         IN  DNorm(na * b[2] + nb * a[2], a[2] * b[2], e)

DNeg(a) == <<-a[1], a[2], a[3]>>
DSub(a, b) == DAdd(a, DNeg(b))

\* ------------------------------------------------------------------------
\* accrual/calculator.py
\* ------------------------------------------------------------------------
DEFAULT_BCF_TO_MMBTU == 1037000

\* AccrualInputs(**kw): the dataclass with its defaults; wacog_per_mmbtu has
\* none and is always in kw
AccrualDefaults ==
    [bcf_to_mmbtu_factor |-> DInt(DEFAULT_BCF_TO_MMBTU),
     tariff_fixed_monthly |-> DZero,
     tariff_injection_per_mmbtu |-> DZero,
     tariff_withdrawal_per_mmbtu |-> DZero,
     scenario_band |-> DFrac(10, 100),
     penalty_probability |-> DZero,
     penalty_amount |-> DZero]

AccrualInputs(kw) ==
    [f \in DOMAIN AccrualDefaults \cup {"wacog_per_mmbtu"} |->
        IF f \in DOMAIN kw THEN kw[f] ELSE AccrualDefaults[f]]

_inventory_value_nofactor(bcf, ai) == DMul(bcf, ai.wacog_per_mmbtu)

\* bcf * ai.bcf_to_mmbtu_factor * ai.wacog_per_mmbtu
_inventory_value(bcf, ai) ==
    DMul(DMul(bcf, ai.bcf_to_mmbtu_factor), ai.wacog_per_mmbtu)

variable_fees_injonly(r, ai) ==
    DMul(DMul(FromR(r.est_injections_bcf), ai.bcf_to_mmbtu_factor),
         ai.tariff_injection_per_mmbtu)

\* inj_mmbtu * tariff_injection + wd_mmbtu * tariff_withdrawal
variable_fees(r, ai) ==
    LET inj_mmbtu == DMul(FromR(r.est_injections_bcf), ai.bcf_to_mmbtu_factor)
        wd_mmbtu == DMul(FromR(r.est_withdrawals_bcf), ai.bcf_to_mmbtu_factor)
    IN  DAdd(DMul(inj_mmbtu, ai.tariff_injection_per_mmbtu),
             DMul(wd_mmbtu, ai.tariff_withdrawal_per_mmbtu))

total_accrual_low_plus(base, band) == DMul(base, DAdd(DInt(1), band))

\* df["total_accrual_base"] * (1 - band)
total_accrual_low(base, band) == DMul(base, DSub(DInt(1), band))

total_accrual_high_minus(base, band) == DMul(base, DSub(DInt(1), band))

\* df["total_accrual_base"] * (1 + band)
total_accrual_high(base, band) == DMul(base, DAdd(DInt(1), band))

\* One row of the frame calc_accruals returns
AccrualRow(r, ai) ==
    LET inventory_accrual == _inventory_value(FromR(r.end_working_gas_bcf), ai)
        fees == variable_fees(r, ai)
        fixed_demand == ai.tariff_fixed_monthly
        penalties_est == DMul(ai.penalty_probability, ai.penalty_amount)
        base == DAdd(DAdd(DAdd(inventory_accrual, fees), fixed_demand),
                     penalties_est)
    IN  [month_end |-> r.month_end, region |-> r.region, stratum |-> r.stratum,
         end_working_gas_bcf |-> r.end_working_gas_bcf,
         inventory_accrual |-> inventory_accrual,
         variable_fees |-> fees,
         fixed_demand |-> fixed_demand,
         penalties_est |-> penalties_est,
         total_accrual_low |-> total_accrual_low(base, ai.scenario_band),
         total_accrual_base |-> base,
         total_accrual_high |-> total_accrual_high(base, ai.scenario_band)]

calc_accruals(monthly_roll, ai) ==
    [i \in DOMAIN monthly_roll |-> AccrualRow(monthly_roll[i], ai)]

\* ------------------------------------------------------------------------
\* accrual/kpis.py
\* ------------------------------------------------------------------------
\* A cell that is NaN (unset) or holds a number
Unset == [set |-> FALSE, val |-> RZero]
Val(v) == [set |-> TRUE, val |-> v]

\* capacity: None, or a frame
NoCapacity == [given |-> FALSE, rows |-> <<>>]
Capacity(rows) == [given |-> TRUE, rows |-> rows]

\* capacity.sort_values("year")
RECURSIVE sort_year(_)
sort_year(sr) ==
    IF sr = <<>> THEN <<>>
    ELSE LET i == CHOOSE k \in 1..Len(sr) :
                      /\ \A j \in 1..Len(sr) : sr[k].year <= sr[j].year
                      /\ \A j \in 1..(k - 1) : sr[j].year # sr[k].year
         IN  <<sr[i]>> \o sort_year(SubSeq(sr, 1, i - 1)
                                     \o SubSeq(sr, i + 1, Len(sr)))

latest_cap_first(rows) ==
    LET sr == sort_year(rows)
    IN  {sr[i] : i \in {k \in DOMAIN sr :
            /\ sr[k].region # Null /\ sr[k].stratum # Null
            /\ \A j \in 1..(k - 1) :
                  ~(sr[j].region = sr[k].region /\ sr[j].stratum = sr[k].stratum)}}

\* capacity.sort_values("year").groupby(["region","stratum"]).tail(1): the
\* last row of each group; groupby leaves out rows with a NaN key
latest_cap(rows) ==
    LET sr == sort_year(rows)
    IN  {sr[i] : i \in {k \in DOMAIN sr :
            /\ sr[k].region # Null /\ sr[k].stratum # Null
            /\ \A j \in (k + 1)..Len(sr) :
                  ~(sr[j].region = sr[k].region /\ sr[j].stratum = sr[k].stratum)}}

\* (df["end_working_gas_bcf"] / df["working_capacity_bcf"]) * 100.0
pct_of_capacity(end_bcf, cap_bcf) ==
    RMul(RDiv(end_bcf, RInt(cap_bcf)), RInt(100))

pct_cell_zero(given, cap, end_bcf) ==
    IF given /\ cap.set THEN Val(pct_of_capacity(end_bcf, cap.val[1]))
    ELSE Val(RZero)

\* The pct_of_capacity cell: NaN when there is no capacity (line 12) or the
\* merged working_capacity_bcf is NaN (line 10)
pct_cell(given, cap, end_bcf) ==
    IF given /\ cap.set THEN Val(pct_of_capacity(end_bcf, cap.val[1]))
    ELSE Unset

\* One row of the frame compute_kpis returns: the left merge on
\* (region, stratum) leaves working_capacity_bcf NaN without a match
KpiRow(r, given, latest) ==
    LET m == {c \in latest : c.region = r.region /\ c.stratum = r.stratum}
        cap == IF m = {} THEN Unset
               ELSE Val(RInt((CHOOSE c \in m : TRUE).working_capacity_bcf))
    IN  [roll |-> r,
         has_capacity_column |-> given,
         working_capacity_bcf |-> cap,
         pct_of_capacity |-> pct_cell(given, cap, r.end_working_gas_bcf),
         zscore_vs_5yr |-> Unset]

compute_kpis(monthly_roll, capacity) ==
    LET given == capacity.given /\ capacity.rows # <<>>
        latest == IF given THEN latest_cap(capacity.rows) ELSE {}
    IN  [i \in DOMAIN monthly_roll |-> KpiRow(monthly_roll[i], given, latest)]

\* ------------------------------------------------------------------------
\* transform/normalize_weekly.py
\* ------------------------------------------------------------------------
\* A DataFrame with named columns: every row is a function on the columns
Frame(columns, rows) == [columns |-> columns, rows |-> rows]

\* df[c] = vals
with_column(df, c, vals) ==
    LET cols == df.columns \cup {c}
    IN  Frame(cols, [i \in DOMAIN df.rows |->
                       [n \in cols |-> IF n = c THEN vals[i] ELSE df.rows[i][n]]])

\* df[keep]
project(df, keep) ==
    Frame(keep, [i \in DOMAIN df.rows |-> [n \in keep |-> df.rows[i][n]]])

_rename_cols_nothing(df, mapping) == df

\* df.rename(columns = the entries of mapping whose key is a column of df)
_rename_cols(df, mapping) ==
    LET present == {k \in DOMAIN mapping : k \in df.columns}
        name(c) == IF c \in present THEN mapping[c] ELSE c
        cols == {name(c) : c \in df.columns}
        old(n) == CHOOSE c \in df.columns : name(c) = n
    IN  Frame(cols, [i \in DOMAIN df.rows |->
                       [n \in cols |-> df.rows[i][old(n)]]])

\* pd.to_datetime(...).dt.date: the time of day of a timestamp is dropped
dt_date(ts) == <<ts[1], ts[2], ts[3]>>

\* The order of a date or timestamp cell
StampOrd(v) ==
    IF Len(v) = 4 THEN Ordinal(dt_date(v)) * 24 + v[4] ELSE Ordinal(v) * 24

\* The order of Python strings (code points: capitals before small letters)
StrOrder == <<"East", "US", "none", "salt">>

\* a cell sorts before another: a missing cell sorts last
StrBefore(a, b) ==
    LET ord(s) == CHOOSE k \in DOMAIN StrOrder : StrOrder[k] = s
    IN  /\ a # Null
        /\ b = Null \/ ord(a) < ord(b)

\* sort_values(["region", "stratum", "date_reported"]): row a before row b
KeyBefore(a, b) ==
    \/ StrBefore(a.region, b.region)
    \/ /\ a.region = b.region
       /\ \/ StrBefore(a.stratum, b.stratum)
          \/ /\ a.stratum = b.stratum
             /\ StampOrd(a.date_reported) < StampOrd(b.date_reported)

\* rows with equal keys keep their order
RECURSIVE sort_by_group(_)
sort_by_group(rows) ==
    IF rows = <<>> THEN <<>>
    ELSE LET i == CHOOSE k \in 1..Len(rows) :
                      /\ \A j \in 1..Len(rows) : ~KeyBefore(rows[j], rows[k])
                      /\ \A j \in 1..(k - 1) : KeyBefore(rows[k], rows[j])
         IN  <<rows[i]>> \o sort_by_group(SubSeq(rows, 1, i - 1)
                                           \o SubSeq(rows, i + 1, Len(rows)))

\* groupby(["region", "stratum"]) leaves out the rows with a missing key
SameGroup(a, b) ==
    /\ a.region # Null /\ a.stratum # Null
    /\ a.region = b.region /\ a.stratum = b.stratum

\* groupby(...)["working_gas_bcf"].diff().fillna(0.0) at row i: the volume
\* less the volume of the row before it in its group; NaN, filled with 0,
\* for the first row of a group and for a row that is in no group
group_diff(rows, i) ==
    LET before == {j \in 1..(i - 1) : SameGroup(rows[i], rows[j])}
    IN  IF before = {} THEN 0
        ELSE LET j == CHOOSE k \in before : \A q \in before : q <= k
             IN  rows[i].working_gas_bcf - rows[j].working_gas_bcf

normalize_weekly(raw_parquet) ==
    LET df1 == _rename_cols(raw_parquet,
                   [period |-> "date", value |-> "working_gas_bcf",
                    area |-> "region"])
        df2 == IF "working_gas_bcf" \notin df1.columns /\ "value" \in df1.columns
               THEN with_column(df1, "working_gas_bcf",
                                [i \in DOMAIN df1.rows |-> df1.rows[i]["value"]])
               ELSE df1
        has_date == "date_reported" \in df2.columns
        base_date_col == IF "date" \in df2.columns THEN "date" ELSE "period"
        df3 == IF has_date THEN df2
               ELSE with_column(df2, "date_reported",
                        [i \in DOMAIN df2.rows |->
                            dt_date(df2.rows[i][base_date_col])])
        df4 == IF "stratum" \in df3.columns THEN df3
               ELSE with_column(df3, "stratum",
                                [i \in DOMAIN df3.rows |-> "none"])
        df5 == Frame(df4.columns, sort_by_group(df4.rows))
        df6 == with_column(df5, "delta_week_bcf",
                           [i \in DOMAIN df5.rows |-> group_diff(df5.rows, i)])
        keep == {"date_reported", "region", "stratum", "working_gas_bcf",
                 "delta_week_bcf"}
    IN  IF ~has_date /\ base_date_col \notin df2.columns THEN Raise("KeyError")
        ELSE IF "region" \notin df3.columns THEN Raise("ValueError")
        ELSE IF "working_gas_bcf" \notin df5.columns THEN Raise("KeyError")
        ELSE Ok(project(df6, keep \cap df6.columns))

\* ------------------------------------------------------------------------
\* config.py
\* ------------------------------------------------------------------------
\* Settings(**kw): the class declares the one field eia_api_key, optional
\* with default None; with extra = "ignore" the keyword arguments that are no
\* declared field are dropped
Settings(kw) ==
    Ok([f \in {"eia_api_key"} |-> IF f \in DOMAIN kw THEN kw[f] ELSE None])

\* settings.name
getattr(obj, name) ==
    IF name \in DOMAIN obj THEN Ok(obj[name]) ELSE Raise("AttributeError")

\* ------------------------------------------------------------------------
\* Inputs of the model
\* ------------------------------------------------------------------------
Obs(region, stratum, date, volume, delta) ==
    [region |-> region, stratum |-> stratum, date_reported |-> date,
     working_gas_bcf |-> volume, delta_week_bcf |-> delta]

\* The weekly observations a table is drawn from
ObsUniverse ==
    { Obs("US", Null,   <<2024, 8, 30>>, 3000, -4),
      Obs("US", "none", <<2025, 7, 25>>, 3100, 0),
      Obs("US", Null,   <<2025, 8, 1>>,  3150, 50),
      Obs("US", "none", <<2025, 8, 15>>, 3140, -10),
      Obs("US", "none", <<2025, 8, 31>>, 3161, 21),
      Obs("US", "salt", <<2025, 8, 1>>,  5, -20),
      Obs("East", Null, <<2025, 8, 1>>,  900, 6) }

Tables == {T \in SUBSET ObsUniverse : Cardinality(T) <= MaxObs}

\* The rows of a frame
Rows(frame) == {frame[i] : i \in DOMAIN frame}

\* One frame per table: its rows, latest date first
RECURSIVE FrameOf(_)
FrameOf(T) ==
    IF T = {} THEN <<>>
    ELSE LET r == CHOOSE x \in T :
                      \A q \in T : DateLE(q.date_reported, x.date_reported)
         IN  <<r>> \o FrameOf(T \ {r})

Frames == {FrameOf(T) : T \in Tables}

\* Every row order of every table
Orderings(T) ==
    {f \in [1..Cardinality(T) -> T] : \A i, j \in DOMAIN f : f[i] = f[j] => i = j}

AllFrames == UNION {Orderings(T) : T \in Tables}

Entry(date, region, stratum, inj, wd) ==
    [date |-> date, region |-> region, stratum |-> stratum,
     inj_bcf |-> inj, wd_bcf |-> wd]

\* The ledger rows an ops file is drawn from
OpsUniverse ==
    { Entry(<<2025, 8, 1>>,  "US", "none", 3, 1),
      Entry(<<2025, 8, 31>>, "US", Null,   2, 5),
      Entry(<<2025, 9, 1>>,  "US", "none", 7, 0) }

OpsFiles ==
    {Missing} \cup {OpsFile(L) : L \in {X \in SUBSET OpsUniverse : Cardinality(X) <= MaxOps}}

\* The rollforward rows a monthly_roll frame is drawn from
RollRow(region, stratum, me, beg, inj, wd, gap_delta, gap_days) ==
    [month_end |-> me, region |-> region, stratum |-> stratum,
     beg_working_gas_bcf |-> beg, est_injections_bcf |-> inj,
     est_withdrawals_bcf |-> wd, gap_delta_bcf |-> gap_delta,
     gap_days |-> gap_days,
     end_working_gas_bcf |-> end_est(beg, inj, wd, gap_delta)]

RollUniverse ==
    { RollRow("US", "none", <<2025, 8, 31>>, RInt(3290), R(1, 4), R(1, 20), R(39, 5), 30),
      RollRow("US", "salt", <<2025, 8, 31>>, RZero, RZero, RInt(5), RZero, 0),
      RollRow("East", "none", <<2025, 8, 31>>, RInt(900), RInt(6), RZero, RZero, 23) }

RollFrames ==
    UNION {Orderings(T) : T \in {X \in SUBSET RollUniverse : Cardinality(X) <= MaxRoll}}

CapRow(region, stratum, year, cap) ==
    [region |-> region, stratum |-> stratum, year |-> year,
     working_capacity_bcf |-> cap]

CapUniverse ==
    { CapRow("US", "none", 2025, 3800),
      CapRow("US", "none", 2024, 3700),
      CapRow("US", "salt", 2025, 500),
      CapRow("East", "none", 2023, 1000),
      CapRow("US", Null, 2026, 9999) }

\* No capacity table, an empty one, or one of a few rows in any order
Capacities ==
    {NoCapacity} \cup
    {Capacity(f) : f \in UNION {Orderings(T) :
        T \in {X \in SUBSET CapUniverse : Cardinality(X) <= MaxCap}}}

\* Keyword arguments of AccrualInputs(...): defaults only; every field
\* supplied; negative tariffs, a band above 1 and a negative wacog; zero
\* wacog and zero band
AccrualKws ==
    { [f \in {"wacog_per_mmbtu"} |-> DFrac(13, 4)],
      [wacog_per_mmbtu |-> DFrac(13, 4),
       bcf_to_mmbtu_factor |-> DInt(1000),
       tariff_fixed_monthly |-> DInt(120000),
       tariff_injection_per_mmbtu |-> DFrac(1, 50),
       tariff_withdrawal_per_mmbtu |-> DFrac(3, 100),
       scenario_band |-> DFrac(1, 5),
       penalty_probability |-> DFrac(1, 4),
       penalty_amount |-> DInt(1000)],
      [wacog_per_mmbtu |-> DInt(-2),
       bcf_to_mmbtu_factor |-> DInt(2),
       tariff_fixed_monthly |-> DInt(-7),
       tariff_injection_per_mmbtu |-> DFrac(-1, 2),
       tariff_withdrawal_per_mmbtu |-> DInt(3),
       scenario_band |-> DFrac(3, 2),
       penalty_probability |-> DFrac(1, 2),
       penalty_amount |-> DInt(10)],
      [wacog_per_mmbtu |-> DZero, scenario_band |-> DZero] }

\* The ops file of the specifications that vary other things, and the two
\* states of the file of those that rewrite it
OrderOpsFile ==
    OpsFile({ Entry(<<2025, 8, 31>>, "US", Null, 2, 5),
              Entry(<<2025, 8, 20>>, "US", "salt", 1, 0) })

FewOpsFiles == {Missing, OrderOpsFile}

AsOfDates == {<<2025, 8, 1>>, <<2025, 8, 15>>, <<2025, 8, 31>>}
CallGroups == {<<"US", None>>, <<"US", "none">>, <<"US", "salt">>}
Lookbacks == {0, 1, DefaultLookback}
BlendWeights ==
    { [k \in {"A", "B", "C"} |-> IF k = "A" THEN R(1, 2) ELSE IF k = "B" THEN R(1, 4) ELSE RInt(2)],
      [k \in {"B"} |-> RInt(3)],
      [k \in {} |-> RZero] }
RollWeights == { <<R(3, 10), R(2, 10), R(5, 10)>>, <<RInt(1), RInt(2), RInt(4)>> }

\* A row of the bronze weekly file: a timestamp <<y, m, d, hour>>, a volume,
\* a region and a stratum
RawRow(ts, value, region, stratum) ==
    [ts |-> ts, value |-> value, region |-> region, stratum |-> stratum]

RawUniverse ==
    { RawRow(<<2025, 7, 25, 0>>, 3100, "US", "none"),
      RawRow(<<2025, 8, 1, 0>>,  3150, "US", "none"),
      RawRow(<<2025, 8, 8, 0>>,  3140, "US", Null),
      RawRow(<<2025, 8, 15, 6>>, 3161, "US", Null),
      RawRow(<<2025, 8, 1, 12>>, 900,  "East", "salt") }

\* The column names a bronze file may carry for each kind of cell
RawColumnSets ==
    { d \cup v \cup r \cup s :
        d \in {{"period"}, {"date"}, {"date_reported"}, {}},
        v \in {{"value"}, {"working_gas_bcf"}, {}},
        r \in {{"area"}, {"region"}, {}},
        s \in {{"stratum"}, {}} }

RawCell(row, c) ==
    CASE c \in {"period", "date", "date_reported"} -> row.ts
      [] c \in {"value", "working_gas_bcf"} -> row.value
      [] c \in {"area", "region"} -> row.region
      [] OTHER -> row.stratum

\* Every bronze file: any columns, at most MaxObs rows in any order
RawFrames ==
    { Frame(cols, [i \in DOMAIN f |-> [c \in cols |-> RawCell(f[i], c)]]) :
        cols \in RawColumnSets,
        f \in UNION {Orderings(T) :
                       T \in {U \in SUBSET RawUniverse : Cardinality(U) <= MaxObs}} }

NoRaw == Frame({}, <<>>)

\* Keyword arguments of Settings(...)
SettingsKws ==
    { [eia_api_key |-> "test_key"],
      [eia_api_key |-> "test_key", default_estimator_weights |-> "0.3,0.2,0.5"],
      [eia_api_key |-> "test_key", default_estimator_weights |-> "0.5,0.5,0.5"],
      [eia_api_key |-> "test_key", default_estimator_weights |-> "0.5,0.5"],
      [default_estimator_weights |-> "0.3,0.2,0.5"] }

AttrNames == {"eia_api_key", "estimator_weights_tuple"}

\* ------------------------------------------------------------------------
\* State: the caller's observation table, the ops file on disk, the call in
\* progress and what it returned, the call before it and what that returned;
\* and for the accrual side the rollforward frame, the capacity table, the
\* call in progress and the frame it returned; and for the ingest side the
\* bronze weekly file, the settings object, the call in progress and what it
\* returned
\* ------------------------------------------------------------------------
VARIABLES weekly, opsfile, call, result, prev,
          monthly_roll, capacity, fcall, fresult,
          raw, settings, icall, iresult

vars == <<weekly, opsfile, call, result, prev,
          monthly_roll, capacity, fcall, fresult,
          raw, settings, icall, iresult>>

estVars == <<weekly, opsfile, call, result, prev>>
accVars == <<monthly_roll, capacity, fcall, fresult>>
ingVars == <<raw, settings, icall, iresult>>
finVars == <<accVars, ingVars>>

Call(op, asof, g, lookback, weights) ==
    [op |-> op, asof |-> asof, region |-> g[1], stratum |-> g[2],
     lookback |-> lookback, weights |-> weights]

Idle == Call("idle", <<1, 1, 1>>, <<"-", "-">>, 0, <<>>)
NoResult == Ok(RZero)
NoPrev == [call |-> Idle, result |-> NoResult]

FCall(op, kw) == [op |-> op, kw |-> kw]
FIdle == FCall("idle", <<>>)

\* No settings object constructed yet
NoSettings == [constructed |-> FALSE]

\* Nothing on the ingest side
IngInit ==
    /\ raw = NoRaw
    /\ settings = NoSettings
    /\ icall = FIdle
    /\ iresult = NoResult

\* Nothing on the accrual side
AccInit ==
    /\ monthly_roll = <<>>
    /\ capacity = NoCapacity
    /\ fcall = FIdle
    /\ fresult = <<>>

FinInit ==
    /\ AccInit
    /\ IngInit

Init ==
    /\ weekly \in Frames
    /\ opsfile \in OpsFiles
    /\ call = Idle
    /\ result = NoResult
    /\ prev = NoPrev
    /\ FinInit

CallMethodA ==
    /\ call.op = "idle"
    /\ \E asof \in AsOfDates, g \in CallGroups, lb \in Lookbacks :
          /\ call' = Call("A", asof, g, lb, <<>>)
          /\ weekly' = caller_keeps(weekly, _select_series(weekly, g[1], g[2]))
          /\ result' = MethodA(lb, weekly, asof, g[1], g[2])
    /\ UNCHANGED <<opsfile, prev, finVars>>

CallMethodB ==
    /\ call.op = "idle"
    /\ \E asof \in AsOfDates, g \in CallGroups :
          /\ call' = Call("B", asof, g, 0, <<>>)
          /\ weekly' = caller_keeps(weekly, _select_series(weekly, g[1], g[2]))
          /\ result' = MethodB(weekly, asof, g[1], g[2])
    /\ UNCHANGED <<opsfile, prev, finVars>>

CallMethodC ==
    /\ call.op = "idle"
    /\ \E asof \in AsOfDates, g \in CallGroups :
          /\ call' = Call("C", asof, g, 0, <<>>)
          /\ weekly' = caller_keeps(weekly, _select_series(weekly, g[1], g[2]))
          /\ result' = MethodC(opsfile, weekly, asof, g[1], g[2])
    /\ UNCHANGED <<opsfile, prev, finVars>>

CallBlended ==
    /\ call.op = "idle"
    /\ \E asof \in AsOfDates, g \in CallGroups, w \in BlendWeights :
          /\ call' = Call("blend", asof, g, DefaultLookback, w)
          /\ weekly' = caller_keeps(weekly, _select_series(weekly, g[1], g[2]))
          /\ result' = BlendedEstimator(w, DefaultLookback, opsfile, weekly,
                                         asof, g[1], g[2])
    /\ UNCHANGED <<opsfile, prev, finVars>>

CallRollforward ==
    /\ call.op = "idle"
    /\ \E asof \in AsOfDates, g \in CallGroups, w \in RollWeights :
          /\ call' = Call("roll", asof, g, DefaultLookback, w)
          /\ weekly' = caller_keeps(weekly, _select_series(weekly, g[1], g[2]))
          /\ result' = build_monthly_rollforward(opsfile, weekly, asof, w, g[1], g[2])
    /\ UNCHANGED <<opsfile, prev, finVars>>

\* The caller takes the result
Return ==
    /\ call.op # "idle"
    /\ call' = Idle
    /\ result' = NoResult
    /\ UNCHANGED <<weekly, opsfile, prev, finVars>>

Next ==
    \/ CallMethodA
    \/ CallMethodB
    \/ CallMethodC
    \/ CallBlended
    \/ CallRollforward
    \/ Return

Spec == Init /\ [][Next]_vars

\* ------------------------------------------------------------------------
\* The same calls on tables whose rows come in any order
\* ------------------------------------------------------------------------
InitOrder ==
    /\ weekly \in AllFrames
    /\ opsfile = OrderOpsFile
    /\ call = Idle
    /\ result = NoResult
    /\ prev = NoPrev
    /\ FinInit

SpecOrder == InitOrder /\ [][Next]_vars

\* ------------------------------------------------------------------------
\* A call, then the same call again, the ops file possibly rewritten in
\* between
\* ------------------------------------------------------------------------
\* What call c returns on observation table w with ops file o on disk
Eval(c, w, o) ==
    CASE c.op = "A" -> MethodA(c.lookback, w, c.asof, c.region, c.stratum)
      [] c.op = "B" -> MethodB(w, c.asof, c.region, c.stratum)
      [] c.op = "C" -> MethodC(o, w, c.asof, c.region, c.stratum)
      [] c.op = "blend" ->
            BlendedEstimator(c.weights, c.lookback, o, w, c.asof, c.region, c.stratum)
      [] c.op = "roll" ->
            build_monthly_rollforward(o, w, c.asof, c.weights, c.region, c.stratum)

InitRepeat ==
    /\ weekly \in Frames
    /\ opsfile \in FewOpsFiles
    /\ call = Idle
    /\ result = NoResult
    /\ prev = NoPrev
    /\ FinInit

FirstCall ==
    /\ prev = NoPrev
    /\ \/ CallMethodA
       \/ CallMethodB
       \/ CallMethodC
       \/ CallBlended
       \/ CallRollforward

\* The caller takes the result and keeps it
ReturnKeep ==
    /\ call.op # "idle"
    /\ prev' = [call |-> call, result |-> result]
    /\ call' = Idle
    /\ result' = NoResult
    /\ UNCHANGED <<weekly, opsfile, finVars>>

\* Somebody writes data/ops/ops_volumes.csv, or removes it
WriteOps ==
    /\ call.op = "idle"
    /\ prev # NoPrev
    /\ opsfile' \in FewOpsFiles \ {opsfile}
    /\ UNCHANGED <<weekly, call, result, prev, finVars>>

\* The caller repeats the call it made before, with the same arguments
CallAgain ==
    /\ call.op = "idle"
    /\ prev # NoPrev
    /\ call' = prev.call
    /\ result' = Eval(prev.call, weekly, opsfile)
    /\ UNCHANGED <<weekly, opsfile, prev, finVars>>

NextRepeat ==
    \/ FirstCall
    \/ ReturnKeep
    \/ WriteOps
    \/ CallAgain

SpecRepeat == InitRepeat /\ [][NextRepeat]_vars

\* ------------------------------------------------------------------------
\* The accrual calculator and the KPI computer on rollforward frames
\* ------------------------------------------------------------------------
InitAccrual ==
    /\ weekly = <<>>
    /\ opsfile = Missing
    /\ call = Idle
    /\ result = NoResult
    /\ prev = NoPrev
    /\ monthly_roll \in RollFrames
    /\ capacity \in Capacities
    /\ fcall = FIdle
    /\ fresult = <<>>
    /\ IngInit

CallCalcAccruals ==
    /\ fcall.op = "idle"
    /\ \E kw \in AccrualKws :
          LET df == calc_accruals(monthly_roll, AccrualInputs(kw))
          IN  /\ fcall' = FCall("accruals", kw)
              /\ fresult' = df
              /\ monthly_roll' = caller_keeps(monthly_roll, df)
    /\ UNCHANGED <<capacity, estVars, ingVars>>

CallComputeKpis ==
    /\ fcall.op = "idle"
    /\ fcall' = FCall("kpis", <<>>)
    /\ LET df == compute_kpis(monthly_roll, capacity)
       IN  /\ fresult' = df
           /\ monthly_roll' = caller_keeps(monthly_roll, df)
    /\ capacity' = [capacity EXCEPT !.rows = caller_keeps(@, sort_year(@))]
    /\ UNCHANGED <<estVars, ingVars>>

\* The caller takes the frame
FReturn ==
    /\ fcall.op # "idle"
    /\ fcall' = FIdle
    /\ fresult' = <<>>
    /\ UNCHANGED <<monthly_roll, capacity, estVars, ingVars>>

NextAccrual ==
    \/ CallCalcAccruals
    \/ CallComputeKpis
    \/ FReturn

SpecAccrual == InitAccrual /\ [][NextAccrual]_vars

\* ------------------------------------------------------------------------
\* Every core operation, called in any sequence on the same caller's tables
\* ------------------------------------------------------------------------
PipelineCapacities ==
    { NoCapacity,
      Capacity(<<CapRow("US", "none", 2025, 3800), CapRow("US", "none", 2024, 3700)>>) }

InitPipeline ==
    /\ weekly \in {f \in AllFrames : Len(f) <= 1}
    /\ opsfile = OrderOpsFile
    /\ call = Idle
    /\ result = NoResult
    /\ prev = NoPrev
    /\ monthly_roll \in {f \in RollFrames : Len(f) <= 1}
    /\ capacity \in PipelineCapacities
    /\ fcall = FIdle
    /\ fresult = <<>>
    /\ IngInit

NextPipeline ==
    \/ Next
    \/ NextAccrual

SpecPipeline == InitPipeline /\ [][NextPipeline]_vars

\* ------------------------------------------------------------------------
\* Ingest: normalize_weekly on a bronze file, and the settings object
\* ------------------------------------------------------------------------
InitIngest ==
    /\ weekly = <<>>
    /\ opsfile = Missing
    /\ call = Idle
    /\ result = NoResult
    /\ prev = NoPrev
    /\ AccInit
    /\ raw \in RawFrames
    /\ settings = NoSettings
    /\ icall = FIdle
    /\ iresult = NoResult

CallNormalizeWeekly ==
    /\ icall.op = "idle"
    /\ icall' = FCall("normalize_weekly", <<>>)
    /\ iresult' = normalize_weekly(raw)
    /\ UNCHANGED <<raw, settings, estVars, accVars>>

ConstructSettings ==
    /\ icall.op = "idle"
    /\ \E kw \in SettingsKws :
          LET made == Settings(kw)
          IN  /\ icall' = FCall("Settings", kw)
              /\ iresult' = made
              /\ settings' = IF made.kind = "ok" THEN made.val ELSE settings
    /\ UNCHANGED <<raw, estVars, accVars>>

GetSettingsAttr ==
    /\ icall.op = "idle"
    /\ settings # NoSettings
    /\ \E name \in AttrNames :
          /\ icall' = FCall("getattr", name)
          /\ iresult' = getattr(settings, name)
    /\ UNCHANGED <<raw, settings, estVars, accVars>>

IReturn ==
    /\ icall.op # "idle"
    /\ icall' = FIdle
    /\ iresult' = NoResult
    /\ UNCHANGED <<raw, settings, estVars, accVars>>

NextIngest ==
    \/ CallNormalizeWeekly
    \/ ConstructSettings
    \/ GetSettingsAttr
    \/ IReturn

SpecIngest == InitIngest /\ [][NextIngest]_vars


\* ------------------------------------------------------------------------
\* The call in progress, read from the state
\* ------------------------------------------------------------------------
\* The observations of the requested (region, stratum)
GroupObs ==
    {w \in Rows(weekly) :
        /\ w.region = call.region
        /\ (IF w.stratum = Null THEN "none" ELSE w.stratum)
             = (IF call.stratum = None THEN "none" ELSE call.stratum)}

\* ... of which those dated at or before as_of_date
Qualifying == {w \in GroupObs : DateLE(w.date_reported, call.asof)}

\* The calendar month-end of as_of_date and of the month before it
MonthEndOfAsOf == <<call.asof[1], call.asof[2], DaysInMonth(call.asof[1], call.asof[2])>>
PrevMonthEndOfAsOf ==
    IF call.asof[2] = 1 THEN <<call.asof[1] - 1, 12, 31>>
    ELSE <<call.asof[1], call.asof[2] - 1, DaysInMonth(call.asof[1], call.asof[2] - 1)>>

\* The latest row of a non-empty set of observations
Latest(S) == CHOOSE w \in S : \A q \in S : DateLE(q.date_reported, w.date_reported)

\* The three estimators on the inputs of the call in progress
EstA == MethodA(call.lookback, weekly, call.asof, call.region, call.stratum)
EstB == MethodB(weekly, call.asof, call.region, call.stratum)
EstC == MethodC(opsfile, weekly, call.asof, call.region, call.stratum)

\* ------------------------------------------------------------------------
\* Claims
\* ------------------------------------------------------------------------
\* C1: every row build_monthly_rollforward returns satisfies
\* ending_volume = beginning_volume + estimated_injections
\*                 - estimated_withdrawals + gap_estimate.
C1_RollforwardInvariant ==
    (call.op = "roll" /\ result.kind = "ok") =>
        result.row.end_working_gas_bcf =
            RAdd(RSub(RAdd(result.row.beg_working_gas_bcf,
                           result.row.est_injections_bcf),
                      result.row.est_withdrawals_bcf),
                 result.row.gap_delta_bcf)

C1_Witness ==
    /\ call.op = "roll" /\ result.kind = "ok"
    /\ result.row.beg_working_gas_bcf # RZero
    /\ result.row.est_injections_bcf # RZero
    /\ result.row.est_withdrawals_bcf # RZero
    /\ result.row.gap_delta_bcf # RZero

\* C2 (as claimed): beginning_volume is the volume of the group's latest
\* observation at or before the end of the month preceding as_of_date's
\* month; observations inside the target month never determine it.
C2_BeginningIsPrevMonthEnd ==
    (call.op = "roll" /\ result.kind = "ok") =>
        LET P == {w \in GroupObs : DateLE(w.date_reported, PrevMonthEndOfAsOf)}
        IN  P # {} =>
                result.row.beg_working_gas_bcf = RInt(Latest(P).working_gas_bcf)

\* C3: the Blended Estimator returns wA*A + wB*B + wC*C on the outputs of the
\* three estimators, with the weights as supplied (no normalisation) and
\* 0.3, 0.2, 0.5 for a missing weight.
C3_BlendIsWeightedSum ==
    call.op = "blend" =>
        LET wA == IF "A" \in DOMAIN call.weights THEN call.weights["A"] ELSE <<3, 10>>
            wB == IF "B" \in DOMAIN call.weights THEN call.weights["B"] ELSE <<1, 5>>
            wC == IF "C" \in DOMAIN call.weights THEN call.weights["C"] ELSE <<1, 2>>
        IN  IF EstA.kind = "ok" /\ EstB.kind = "ok" /\ EstC.kind = "ok"
            THEN /\ result.kind = "ok"
                 /\ result.val = RAdd(RAdd(RMul(wA, EstA.val), RMul(wB, EstB.val)),
                                      RMul(wC, EstC.val))
            ELSE result.kind = "raise"

C3_Witness ==
    /\ call.op = "blend" /\ result.kind = "ok"
    /\ DOMAIN call.weights = {"B"}
    /\ EstA.val # RZero /\ EstB.val # RZero /\ EstC.val # RZero
    /\ EstB.val # EstC.val

\* C4: gap_estimate of the rollforward row is the Blended Estimator's output
\* for the same table, as_of_date, region and stratum, with the supplied
\* weights (wA, wB, wC) given in that order to Estimators A, B, C.
C4_GapEstimateIsBlend ==
    (call.op = "roll" /\ result.kind = "ok") =>
        LET W == [k \in {"A", "B", "C"} |->
                    IF k = "A" THEN call.weights[1]
                    ELSE IF k = "B" THEN call.weights[2] ELSE call.weights[3]]
            blend == BlendedEstimator(W, DefaultLookback, opsfile, weekly,
                                      call.asof, call.region, call.stratum)
        IN  blend.kind = "ok" /\ result.row.gap_delta_bcf = blend.val

C4_Witness ==
    /\ call.op = "roll" /\ result.kind = "ok"
    /\ call.weights[2] # call.weights[3]
    /\ EstB.val # EstC.val
    /\ result.row.gap_delta_bcf # RZero


\* Sums over sets of rows
RECURSIVE SetSumDelta(_)
SetSumDelta(S) ==
    IF S = {} THEN 0
    ELSE LET w == CHOOSE x \in S : TRUE
         IN  w.delta_week_bcf + SetSumDelta(S \ {w})

RECURSIVE NetInjection(_)
NetInjection(S) ==
    IF S = {} THEN 0
    ELSE LET o == CHOOSE x \in S : TRUE
         IN  (o.inj_bcf - o.wd_bcf) + NetInjection(S \ {o})

\* The gap-day count of the call: max(month_end - last reported date, 0)
GapDayCount ==
    LET n == Ordinal(MonthEndOfAsOf) - Ordinal(Latest(Qualifying).date_reported)
    IN  IF n > 0 THEN n ELSE 0

\* C5 (as claimed): when the group has no observation at or before
\* as_of_date, Estimators A, B and C return 0.0 and the Rollforward Builder
\* returns a row with gap_days = 0; nothing raises.
C5_NoDataNoException ==
    (call.op # "idle" /\ Qualifying = {}) =>
        /\ result.kind = "ok"
        /\ call.op \in {"A", "B", "C"} => result.val = RZero
        /\ call.op = "roll" => result.row.gap_days = 0

\* C6: when the table has no row of the requested (region, stratum), each of
\* Estimators A, B, C and the Blended Estimator returns 0.0, whatever the
\* as_of_date, the weights and the ledger.
C6_EmptyGroupIsZero ==
    (call.op \in {"A", "B", "C", "blend"} /\ GroupObs = {}) =>
        result = Ok(RZero)

C6_Witness ==
    /\ call.op = "blend" /\ GroupObs = {} /\ weekly # <<>>
    /\ \E w \in Rows(weekly) : w.region = call.region
    /\ opsfile.exists
    /\ \E o \in opsfile.rows :
          o.region = call.region /\ o.stratum = call.stratum
    /\ result = Ok(RZero)

\* C7 (as claimed): when the group has no observation at or before the
\* previous month's end, the Rollforward Builder returns a row with
\* beginning_volume = 0.0 and does not raise.
C7_ColdStart ==
    (call.op = "roll"
       /\ {w \in GroupObs : DateLE(w.date_reported, PrevMonthEndOfAsOf)} = {}) =>
        result.kind = "ok" /\ result.row.beg_working_gas_bcf = RZero

\* C8: Estimator A returns sum(delta of the k most recent qualifying
\* observations) / (7 * k) * gap-day count, k = min(lookback, number of
\* qualifying observations); observations after as_of_date never enter.
\* With k = 0 it returns 0.0.
C8_MethodAWindow ==
    call.op = "A" =>
        LET n == Cardinality(Qualifying)
            k == IF call.lookback < n THEN call.lookback ELSE n
            Recent == {w \in Qualifying :
                         Cardinality({q \in Qualifying :
                             DateLT(w.date_reported, q.date_reported)}) < k}
        IN  IF k = 0 THEN result = Ok(RZero)
            ELSE result = Ok(RMul(R(SetSumDelta(Recent), 7 * k), RInt(GapDayCount)))

C8_Witness ==
    /\ call.op = "A" /\ result.kind = "ok" /\ result.val # RZero
    /\ call.lookback >= 1
    /\ Cardinality(Qualifying) > call.lookback
    /\ GroupObs # Qualifying
    /\ \E w \in Qualifying : w # Latest(Qualifying) /\ w.delta_week_bcf # 0

\* C9: Estimator B returns mean(delta / 7 over the qualifying observations
\* whose month number is as_of_date's, all years pooled) * gap-day count, and
\* 0.0 when there is no such observation.
C9_MethodBSeasonal ==
    call.op = "B" =>
        LET M == {w \in Qualifying : w.date_reported[2] = call.asof[2]}
        IN  IF M = {} THEN result = Ok(RZero)
            ELSE result = Ok(RMul(RDiv(R(SetSumDelta(M), 7), RInt(Cardinality(M))),
                                  RInt(GapDayCount)))

C9_Witness ==
    /\ call.op = "B" /\ result.kind = "ok" /\ result.val # RZero
    /\ \E v, w \in Qualifying :
          /\ v.date_reported[2] = call.asof[2] /\ w.date_reported[2] = call.asof[2]
          /\ v.date_reported[1] # w.date_reported[1]
          /\ v.delta_week_bcf # 0
          /\ w.delta_week_bcf # 0
    /\ \E w \in Qualifying : w.date_reported[2] # call.asof[2]

InMonthObs ==
    {w \in GroupObs : /\ w.date_reported[1] = call.asof[1]
                      /\ w.date_reported[2] = call.asof[2]}

\* C11: in the rollforward row, estimated_injections is the sum of the
\* positive weekly deltas and estimated_withdrawals the sum of the negated
\* negative weekly deltas, over exactly the group's observations dated in the
\* calendar month of as_of_date; zero deltas and observations of other months
\* or other groups contribute to neither.
C11_InMonthSplit ==
    (call.op = "roll" /\ result.kind = "ok") =>
        /\ result.row.est_injections_bcf =
              RInt(SetSumDelta({w \in InMonthObs : w.delta_week_bcf > 0}))
        /\ result.row.est_withdrawals_bcf =
              RInt(-SetSumDelta({w \in InMonthObs : w.delta_week_bcf < 0}))

C11_Witness ==
    /\ call.op = "roll" /\ result.kind = "ok"
    /\ result.row.est_injections_bcf # RZero
    /\ result.row.est_withdrawals_bcf # RZero
    /\ \E w \in GroupObs \ InMonthObs :
          w.date_reported[2] = call.asof[2] /\ w.delta_week_bcf < 0

C13_RollforwardIdempotent ==
    (call.op = "roll" /\ prev.call = call) => result = prev.result

\* C14 (as claimed): every core operation is a pure function of its call
\* arguments: a call with the arguments of an earlier call returns what the
\* earlier call returned, its result depending on no file and no other state
\* outside the arguments.
C14_PureFunctionOfArguments ==
    (call.op # "idle" /\ prev.call = call) => result = prev.result

\* C15: the rollforward row and every estimator output for a (region,
\* stratum) are those computed from the group's own observations alone:
\* rows of other groups, and the order of the rows in the table, change
\* nothing.
C15_GroupAndOrderIndependent ==
    call.op # "idle" => result = Eval(call, FrameOf(GroupObs), opsfile)

C15_Witness ==
    /\ call.op = "roll" /\ result.kind = "ok"
    /\ result.row.gap_delta_bcf # RZero
    /\ result.row.beg_working_gas_bcf # RZero
    /\ Rows(weekly) # GroupObs
    /\ \E i, j \in DOMAIN weekly :
          /\ i < j /\ weekly[i] \in GroupObs /\ weekly[j] \in GroupObs
          /\ DateLT(weekly[j].date_reported, weekly[i].date_reported)
    /\ \E i, j \in DOMAIN weekly :
          /\ i < j /\ weekly[i] \in GroupObs /\ weekly[j] \notin GroupObs

\* ------------------------------------------------------------------------
\* The accrual call in progress, read from the state
\* ------------------------------------------------------------------------
\* The value the call uses for a field of AccrualInputs: the one supplied,
\* else the documented default
KwOr(f, default) == IF f \in DOMAIN fcall.kw THEN fcall.kw[f] ELSE default

Factor == KwOr("bcf_to_mmbtu_factor", DInt(1037000))
Band == KwOr("scenario_band", DFrac(1, 10))

\* C16: on every accrual row, total_accrual_low = total_accrual_base *
\* (1 - band) and total_accrual_high = total_accrual_base * (1 + band), for
\* every scenario_band in [0,1) (and for the bands outside it too).
C16_AccrualBand ==
    fcall.op = "accruals" =>
        \A i \in DOMAIN fresult :
            /\ fresult[i].total_accrual_low =
                  DMul(fresult[i].total_accrual_base, DSub(DInt(1), Band))
            /\ fresult[i].total_accrual_high =
                  DMul(fresult[i].total_accrual_base, DAdd(DInt(1), Band))

C16_Witness ==
    /\ fcall.op = "accruals"
    /\ Band = DFrac(1, 5)
    /\ \E i \in DOMAIN fresult :
          /\ fresult[i].total_accrual_base # DZero
          /\ fresult[i].total_accrual_low # fresult[i].total_accrual_base
          /\ fresult[i].total_accrual_low # fresult[i].total_accrual_high

\* C17: for every rollforward row, inventory_accrual = ending_volume *
\* volume_to_energy_factor * wacog_per_unit, the factor being 1,037,000 when
\* the caller supplies none; ending_volume 3298 with the default factor and
\* wacog 3.25 gives 11,115,084,500.
C17_InventoryAccrual ==
    fcall.op = "accruals" =>
        /\ Len(fresult) = Len(monthly_roll)
        /\ \A i \in DOMAIN monthly_roll :
              /\ fresult[i].inventory_accrual =
                    DMul(DMul(FromR(monthly_roll[i].end_working_gas_bcf), Factor),
                         fcall.kw["wacog_per_mmbtu"])
              /\ (/\ monthly_roll[i].end_working_gas_bcf = RInt(3298)
                  /\ "bcf_to_mmbtu_factor" \notin DOMAIN fcall.kw
                  /\ fcall.kw["wacog_per_mmbtu"] = DFrac(13, 4)) =>
                        fresult[i].inventory_accrual = <<111150845, 1, 2>>

C17_Witness ==
    /\ fcall.op = "accruals"
    /\ "bcf_to_mmbtu_factor" \notin DOMAIN fcall.kw
    /\ fcall.kw["wacog_per_mmbtu"] = DFrac(13, 4)
    /\ \E i \in DOMAIN monthly_roll :
          /\ monthly_roll[i].end_working_gas_bcf = RInt(3298)
          /\ fresult[i].inventory_accrual = <<111150845, 1, 2>>

\* C18: for every rollforward row, total_accrual_base = inventory_accrual +
\* variable_fees + fixed_demand + penalty_estimate, with variable_fees =
\* estimated_injections * factor * injection_tariff + estimated_withdrawals *
\* factor * withdrawal_tariff, fixed_demand = the fixed tariff (not prorated)
\* and penalty_estimate = penalty_probability * penalty_amount; no input
\* value is rejected: every call returns a row for every rollforward row.
C18_TotalAccrualBase ==
    fcall.op = "accruals" =>
        /\ Len(fresult) = Len(monthly_roll)
        /\ \A i \in DOMAIN monthly_roll :
              LET r == monthly_roll[i]
                  a == fresult[i]
              IN  /\ a.month_end = r.month_end
                  /\ a.region = r.region /\ a.stratum = r.stratum
                  /\ a.variable_fees =
                        DAdd(DMul(DMul(FromR(r.est_injections_bcf), Factor),
                                  KwOr("tariff_injection_per_mmbtu", DZero)),
                             DMul(DMul(FromR(r.est_withdrawals_bcf), Factor),
                                  KwOr("tariff_withdrawal_per_mmbtu", DZero)))
                  /\ a.fixed_demand = KwOr("tariff_fixed_monthly", DZero)
                  /\ a.penalties_est =
                        DMul(KwOr("penalty_probability", DZero),
                             KwOr("penalty_amount", DZero))
                  /\ a.total_accrual_base =
                        DAdd(DAdd(DAdd(a.inventory_accrual, a.variable_fees),
                                  a.fixed_demand), a.penalties_est)

C18_Witness ==
    /\ fcall.op = "accruals"
    /\ fcall.kw["wacog_per_mmbtu"][1] < 0
    /\ KwOr("tariff_injection_per_mmbtu", DZero)[1] < 0
    /\ Band = DFrac(3, 2)
    /\ \E i \in DOMAIN fresult :
          /\ monthly_roll[i].est_injections_bcf # RZero
          /\ monthly_roll[i].est_withdrawals_bcf # RZero
          /\ fresult[i].variable_fees # DZero
          /\ fresult[i].fixed_demand # DZero
          /\ fresult[i].penalties_est # DZero
          /\ fresult[i].total_accrual_base # fresult[i].inventory_accrual

\* The capacity rows of the (region, stratum) of a rollforward row
CapOf(r) ==
    {c \in Rows(capacity.rows) : c.region = r.region /\ c.stratum = r.stratum}

\* C19: with capacity data, compute_kpis gives each rollforward row
\* percent_of_capacity = ending_volume / working_capacity * 100, the
\* working_capacity of the capacity row with the greatest year among those
\* of the same (region, stratum); rows of earlier years or of other groups
\* do not affect it. ending_volume 3298 on capacity 3800 gives 1649/19
\* (86.79).
C19_PercentOfCapacity ==
    (fcall.op = "kpis" /\ capacity.given) =>
        /\ Len(fresult) = Len(monthly_roll)
        /\ \A i \in DOMAIN monthly_roll :
              LET r == monthly_roll[i]
                  M == CapOf(r)
                  top == CHOOSE c \in M : \A q \in M : q.year <= c.year
              IN  /\ fresult[i].roll = r
                  /\ M # {} =>
                        /\ fresult[i].pct_of_capacity =
                              Val(RMul(RDiv(r.end_working_gas_bcf,
                                            RInt(top.working_capacity_bcf)),
                                       RInt(100)))
                        /\ (r.end_working_gas_bcf = RInt(3298)
                              /\ top.working_capacity_bcf = 3800) =>
                                  fresult[i].pct_of_capacity = Val(<<1649, 19>>)

C19_Witness ==
    /\ fcall.op = "kpis" /\ capacity.given
    /\ \E i \in DOMAIN monthly_roll :
          /\ monthly_roll[i].end_working_gas_bcf = RInt(3298)
          /\ Cardinality(CapOf(monthly_roll[i])) = 2
          /\ capacity.rows[1].year > capacity.rows[2].year
          /\ fresult[i].pct_of_capacity = Val(<<1649, 19>>)

\* C20: compute_kpis leaves percent_of_capacity unset (not 0) for a
\* rollforward row when no capacity table is supplied, the table is empty,
\* or it has no row of that (region, stratum); and the z-score field is
\* unset on every output row.
C20_UnsetWithoutCapacity ==
    fcall.op = "kpis" =>
        /\ Len(fresult) = Len(monthly_roll)
        /\ \A i \in DOMAIN monthly_roll :
              /\ ~fresult[i].zscore_vs_5yr.set
              /\ (~capacity.given \/ capacity.rows = <<>>
                    \/ CapOf(monthly_roll[i]) = {}) =>
                        /\ ~fresult[i].pct_of_capacity.set
                        /\ fresult[i].pct_of_capacity # Val(RZero)

C20_Witness ==
    /\ fcall.op = "kpis" /\ capacity.given /\ Len(capacity.rows) = 2
    /\ Len(monthly_roll) = 2
    /\ CapOf(monthly_roll[1]) = {}
    /\ ~fresult[1].pct_of_capacity.set
    /\ fresult[2].pct_of_capacity.set
    /\ ~fresult[2].zscore_vs_5yr.set

\* The weight the blend call in progress gives estimator k
BlendWeight(k, default) ==
    IF k \in DOMAIN call.weights THEN call.weights[k] ELSE default

\* C24 (as stated in the testable properties): for arbitrary weights the
\* blend is wA*A + wB*C + wC*C, the output of Estimator C standing in the
\* wB term as well.
C24_BlendLinearityAsStated ==
    (call.op = "blend" /\ result.kind = "ok") =>
        result.val =
            RAdd(RAdd(RMul(BlendWeight("A", R(3, 10)), EstA.val),
                      RMul(BlendWeight("B", R(2, 10)), EstC.val)),
                 RMul(BlendWeight("C", R(5, 10)), EstC.val))

\* C24 (amended): for arbitrary weights, including weights that do not sum
\* to 1, the blend is wA*A + wB*B + wC*C, each weight multiplying the output
\* of its own estimator on the same inputs; the weights are not rescaled.
C24_BlendLinearity ==
    (call.op = "blend" /\ result.kind = "ok") =>
        /\ EstA.kind = "ok" /\ EstB.kind = "ok" /\ EstC.kind = "ok"
        /\ RSub(RSub(result.val, RMul(BlendWeight("A", R(3, 10)), EstA.val)),
                RMul(BlendWeight("C", R(5, 10)), EstC.val))
              = RMul(BlendWeight("B", R(2, 10)), EstB.val)

C24_Witness ==
    /\ call.op = "blend" /\ result.kind = "ok"
    /\ DOMAIN call.weights = {"A", "B", "C"}
    /\ RAdd(RAdd(call.weights["A"], call.weights["B"]), call.weights["C"]) # RInt(1)
    /\ EstA.val # RZero /\ EstB.val # RZero /\ EstC.val # RZero
    /\ EstB.val # EstC.val

\* C25: when the group's last reported date at or before as_of_date is the
\* month-end (gap_days = 0), Estimators A, B and C each return 0, so the
\* blend and the gap_estimate are 0 for every weight vector and every ledger,
\* and ending_volume = beginning_volume + estimated_injections -
\* estimated_withdrawals.
C25_ZeroGap ==
    (call.op # "idle" /\ Qualifying # {}
       /\ Latest(Qualifying).date_reported = MonthEndOfAsOf) =>
        /\ call.op \in {"A", "B", "C", "blend"} => result = Ok(RZero)
        /\ call.op = "roll" =>
              /\ result.kind = "ok"
              /\ result.row.gap_days = 0
              /\ result.row.gap_delta_bcf = RZero
              /\ result.row.end_working_gas_bcf =
                    RSub(RAdd(result.row.beg_working_gas_bcf,
                              result.row.est_injections_bcf),
                         result.row.est_withdrawals_bcf)

C25_Witness ==
    /\ call.op = "roll" /\ result.kind = "ok"
    /\ Latest(Qualifying).date_reported = MonthEndOfAsOf
    /\ Latest(Qualifying).delta_week_bcf # 0
    /\ call.weights = <<RInt(1), RInt(2), RInt(4)>>
    /\ opsfile.exists
    /\ \E o \in opsfile.rows : o.region = call.region /\ o.inj_bcf # o.wd_bcf
    /\ result.row.est_withdrawals_bcf # RZero
    /\ result.row.gap_delta_bcf = RZero

\* The rollforward of the call in progress, as_of_date replaced by a
RollAt(a) ==
    build_monthly_rollforward(opsfile, weekly, a, call.weights,
                              call.region, call.stratum)

\* C26: for two as_of dates of one calendar month and the same observation
\* table the Rollforward Builder returns the same month_end,
\* beginning_volume, estimated_injections and estimated_withdrawals:
\* observations after as_of_date inside the target month count in the
\* in-month flows, while gap_days uses only observations at or before
\* as_of_date.
C26_SameMonthSameFlows ==
    (call.op = "roll" /\ result.kind = "ok") =>
        /\ \A a \in AsOfDates \ {call.asof} :
              LET other == RollAt(a)
              IN  (a[1] = call.asof[1] /\ a[2] = call.asof[2]
                     /\ other.kind = "ok") =>
                      /\ other.row.month_end = result.row.month_end
                      /\ other.row.beg_working_gas_bcf
                            = result.row.beg_working_gas_bcf
                      /\ other.row.est_injections_bcf
                            = result.row.est_injections_bcf
                      /\ other.row.est_withdrawals_bcf
                            = result.row.est_withdrawals_bcf
        /\ RSub(result.row.est_injections_bcf, result.row.est_withdrawals_bcf)
              = RInt(SetSumDelta(InMonthObs))
        /\ result.row.gap_days =
              Ordinal(MonthEndOfAsOf) - Ordinal(Latest(Qualifying).date_reported)

C26_Witness ==
    /\ call.op = "roll" /\ result.kind = "ok"
    /\ call.asof = <<2025, 8, 1>>
    /\ LET other == RollAt(<<2025, 8, 31>>)
       IN  other.kind = "ok" /\ other.row.gap_days # result.row.gap_days
    /\ \E w \in InMonthObs :
          DateLT(call.asof, w.date_reported) /\ w.delta_week_bcf > 0
    /\ \E w \in InMonthObs :
          DateLT(call.asof, w.date_reported) /\ w.delta_week_bcf < 0
    /\ result.row.est_injections_bcf # RZero
    /\ result.row.est_withdrawals_bcf # RZero

\* C27: in every rollforward row estimated_injections >= 0 and
\* estimated_withdrawals >= 0, and their difference is the signed sum of the
\* weekly deltas of the group's observations in the target month;
\* ending_volume is the unclamped sum and may be negative.
C27_NonNegativeFlows ==
    (call.op = "roll" /\ result.kind = "ok") =>
        /\ result.row.est_injections_bcf[1] >= 0
        /\ result.row.est_withdrawals_bcf[1] >= 0
        /\ RInt(SetSumDelta(InMonthObs)) =
              RSub(result.row.est_injections_bcf, result.row.est_withdrawals_bcf)
        /\ result.row.end_working_gas_bcf =
              RAdd(result.row.beg_working_gas_bcf,
                   RAdd(RInt(SetSumDelta(InMonthObs)), result.row.gap_delta_bcf))

C27_Witness ==
    /\ call.op = "roll" /\ result.kind = "ok"
    /\ result.row.est_withdrawals_bcf[1] > 0
    /\ result.row.beg_working_gas_bcf[1] > 0
    /\ result.row.end_working_gas_bcf[1] < 0

\* Order of two amounts
DLE(a, b) == DSub(b, a)[1] >= 0
DLT(a, b) == DSub(b, a)[1] > 0

\* C28: on every accrual row with scenario_band >= 0 and total_accrual_base
\* >= 0, total_accrual_low <= total_accrual_base <= total_accrual_high; with
\* total_accrual_base < 0 (negative ending_volume, negative tariffs) and a
\* positive band the order is reversed: high < base < low.
C28_BandOrder ==
    fcall.op = "accruals" =>
        \A i \in DOMAIN fresult :
            LET a == fresult[i]
            IN  /\ (Band[1] >= 0 /\ a.total_accrual_base[1] >= 0) =>
                      /\ DLE(a.total_accrual_low, a.total_accrual_base)
                      /\ DLE(a.total_accrual_base, a.total_accrual_high)
                /\ (Band[1] > 0 /\ a.total_accrual_base[1] < 0) =>
                      /\ DLT(a.total_accrual_high, a.total_accrual_base)
                      /\ DLT(a.total_accrual_base, a.total_accrual_low)

C28_Witness ==
    /\ fcall.op = "accruals" /\ Band[1] > 0
    /\ \E i, j \in DOMAIN fresult :
          /\ fresult[i].total_accrual_base[1] > 0
          /\ DLT(fresult[i].total_accrual_low, fresult[i].total_accrual_base)
          /\ DLT(fresult[i].total_accrual_base, fresult[i].total_accrual_high)
          /\ monthly_roll[j].end_working_gas_bcf[1] < 0
          /\ fresult[j].total_accrual_base[1] < 0
          /\ DLT(fresult[j].total_accrual_high, fresult[j].total_accrual_low)

\* A null stratum written out as "none"
Sentinel(s) == IF s = Null THEN "none" ELSE s

\* The observation table and the ops file with every null stratum written
\* out as "none"
SentinelTable == [i \in DOMAIN weekly |-> [weekly[i] EXCEPT !.stratum = Sentinel(@)]]
SentinelOps ==
    [opsfile EXCEPT !.rows = {[o EXCEPT !.stratum = Sentinel(@)] : o \in @}]

\* C29: a call with stratum absent (None) returns what the call with stratum
\* "none" returns; observation and ledger rows with a null stratum count as
\* rows of the "none" group; and the stratum of a rollforward row is "none",
\* never null.
C29_StratumSentinel ==
    /\ (call.op # "idle" /\ call.stratum \in {None, "none"}) =>
          result = Eval([call EXCEPT !.stratum = "none"], SentinelTable, SentinelOps)
    /\ (call.op = "roll" /\ result.kind = "ok") =>
          /\ result.row.stratum \notin {Null, None}
          /\ call.stratum = None => result.row.stratum = "none"

C29_Witness ==
    /\ call.op = "roll" /\ call.stratum = None /\ result.kind = "ok"
    /\ result.row.stratum = "none"
    /\ \E w \in Qualifying : w.stratum = Null
    /\ \E w \in Qualifying : w.stratum = "none"
    /\ opsfile.exists
    /\ \A o \in opsfile.rows : o.region = call.region => o.stratum = Null
    /\ EstC.val # RZero

\* C30: no core operation modifies its inputs: through any sequence of calls
\* to the estimators, build_monthly_rollforward, compute_kpis and
\* calc_accruals the caller's observation table, capacity table and
\* rollforward table keep their rows, their order and their columns.
C30_InputsUnchanged ==
    [][/\ weekly' = weekly
       /\ capacity' = capacity
       /\ monthly_roll' = monthly_roll]_vars

C30_Witness ==
    /\ call.op = "roll" /\ result.kind = "ok"
    /\ fcall.op = "kpis" /\ capacity.given
    /\ Len(fresult) = 1 /\ fresult[1].pct_of_capacity.set
    /\ capacity.rows[1].year > capacity.rows[2].year
    /\ \E i \in DOMAIN weekly : weekly[i].stratum = Null

\* The rows normalize_weekly returned
SilverRows == iresult.val.rows

\* The rows of the result in the same (region, stratum) as row i
GroupOf(i) ==
    {j \in DOMAIN SilverRows :
        /\ SilverRows[j].region = SilverRows[i].region
        /\ SilverRows[j].stratum = SilverRows[i].stratum}

\* The rows of the group of row i that are dated before it
EarlierInGroup(i) ==
    {j \in GroupOf(i) :
        StampOrd(SilverRows[j].date_reported) < StampOrd(SilverRows[i].date_reported)}

\* C21: the normalizer returns the rows of each (region, stratum) in
\* ascending date order; each row's delta is its volume less the volume of
\* the row dated just before it in its group, 0 for the first row of a
\* group, and never a difference between rows of two groups.
C21_GroupedDelta ==
    (icall.op = "normalize_weekly" /\ iresult.kind = "ok") =>
        \A i \in DOMAIN SilverRows :
            /\ \A j \in GroupOf(i) :
                  i < j => StampOrd(SilverRows[i].date_reported)
                             <= StampOrd(SilverRows[j].date_reported)
            /\ IF EarlierInGroup(i) = {}
               THEN SilverRows[i].delta_week_bcf = 0
               ELSE LET p == CHOOSE j \in EarlierInGroup(i) :
                                 \A q \in EarlierInGroup(i) :
                                     StampOrd(SilverRows[q].date_reported)
                                       <= StampOrd(SilverRows[j].date_reported)
                    IN  SilverRows[i].delta_week_bcf =
                            SilverRows[i].working_gas_bcf
                              - SilverRows[p].working_gas_bcf

RegionResolvable == {"area", "region"} \cap raw.columns # {}
DateResolvable == {"period", "date", "date_reported"} \cap raw.columns # {}
VolumeResolvable == {"value", "working_gas_bcf"} \cap raw.columns # {}

\* The region, volume and stratum cells of the rows of a frame
Cells(df, region, volume, stratum) ==
    {<<df.rows[i][region], df.rows[i][volume], df.rows[i][stratum]>> :
        i \in DOMAIN df.rows}

\* C22: the normalizer fails when the bronze file has neither an area nor a
\* region column (with ValueError once the date column is there); with a
\* region, date and volume column it succeeds, every row has stratum "none"
\* when the file has no stratum column, and every row keeps the stratum the
\* file gave it when it has one.
C22_RegionAndStratum ==
    icall.op = "normalize_weekly" =>
        /\ ~RegionResolvable =>
              /\ iresult.kind = "raise"
              /\ DateResolvable => iresult.exc = "ValueError"
        /\ (RegionResolvable /\ DateResolvable /\ VolumeResolvable) =>
              /\ iresult.kind = "ok"
              /\ Len(SilverRows) = Len(raw.rows)
              /\ "stratum" \notin raw.columns =>
                    \A i \in DOMAIN SilverRows : SilverRows[i].stratum = "none"
              /\ "stratum" \in raw.columns =>
                    Cells(iresult.val, "region", "working_gas_bcf", "stratum")
                      = Cells(raw,
                              CHOOSE c \in {"area", "region"} : c \in raw.columns,
                              CHOOSE c \in {"value", "working_gas_bcf"} :
                                  c \in raw.columns,
                              "stratum")

C22_Witness ==
    /\ icall.op = "normalize_weekly"
    /\ raw.columns = {"period", "value", "area"}
    /\ Len(raw.rows) = MaxObs
    /\ iresult.kind = "ok"
    /\ \A i \in DOMAIN SilverRows : SilverRows[i].stratum = "none"

\* The weights a weights string spells
WeightsOf(str) ==
    CASE str = "0.3,0.2,0.5" -> <<R(3, 10), R(2, 10), R(5, 10)>>
      [] str = "0.5,0.5,0.5" -> <<R(5, 10), R(5, 10), R(5, 10)>>
      [] str = "0.5,0.5" -> <<R(5, 10), R(5, 10)>>

RECURSIVE SumWeights(_)
SumWeights(w) ==
    IF w = <<>> THEN RZero ELSE RAdd(Head(w), SumWeights(Tail(w)))

ValidWeights(w) == Len(w) = 3 /\ SumWeights(w) = RInt(1)

\* C23: Settings(...) with a weights string raises ValueError unless the
\* string holds exactly three weights that sum to 1.0, and the settings
\* object exposes the weights as the tuple estimator_weights_tuple.
C23_WeightsValidated ==
    /\ (icall.op = "Settings" /\ "default_estimator_weights" \in DOMAIN icall.kw) =>
          IF ValidWeights(WeightsOf(icall.kw.default_estimator_weights))
          THEN iresult.kind = "ok"
          ELSE iresult = Raise("ValueError")
    /\ (icall.op = "getattr" /\ icall.kw = "estimator_weights_tuple") =>
          /\ iresult.kind = "ok"
          /\ ValidWeights(iresult.val)

====
